---- MODULE Spec2Model ----
(***************************************************************************)
(* Model of the hazmat wrappers around the HACL* backend:                  *)
(*   rust/src/hazmat/p256.rs        (P-256 decoding, validation, ECDH,     *)
(*                                   ECDSA signing)                        *)
(*   rust/src/hazmat/curve25519.rs  (X25519 ECDH, public key derivation)   *)
(*                                                                         *)
(* Byte buffers are sequences of 0..255 (index i of the Rust slice is      *)
(* index i+1 here).  A usize is four 16-bit limbs, least significant       *)
(* first (64-bit target), a u32 is two of them.  Every function returns a  *)
(* record [res, calls]: its Result and the ordered list of the calls it    *)
(* made (its own entry, nested wrappers, and the backend functions with    *)
(* the arguments they were handed and the boolean they returned).  The     *)
(* backend is opaque: what a backend routine returns and writes is drawn   *)
(* by the environment, except the private-key validator, which is the      *)
(* range check 0 < s < n.                                                  *)
(***************************************************************************)
EXTENDS Integers, Sequences, FiniteSets

VARIABLES pc, op, args, private, calls, result, accel

vars == <<pc, op, args, private, calls, result, accel>>

(* ------------------------------ bounds -------------------------------- *)
\* scalar slices are up to ScalarLen + MaxExcess bytes long
MaxExcess == 8
\* wire points are up to UncompressedLen + MaxWireExtra bytes long
MaxWireExtra == 1
\* the third 16-bit limb of a message length ranges over 0..MaxMsgHiLimb
MaxMsgHiLimb == 1

(* --------------------------- program widths --------------------------- *)
ScalarLen == 32
RawPointLen == 64
UncompressedLen == 65
CompressedLen == 33
X25519Len == 32
SignatureLen == 64

(* ------------------------------ helpers ------------------------------- *)
Fill(n, b) == [i \in 1..n |-> b]
Ramp(n) == [i \in 1..n |-> i % 256]
LimbMax == 2^16 - 1

\* Rust's Result<T, Error>: a value or an error, never both
Ok(v) == [ok |-> TRUE, err |-> "None", val |-> v]
Err(e) == [ok |-> FALSE, err |-> e, val |-> <<>>]
Pending == [ok |-> FALSE, err |-> "Pending", val |-> <<>>]

\* one entry of the call log
Ev(f, a, r) == [fn |-> f, args |-> a, ok |-> r]

\* `len as u32` of a usize: the low 32 bits
as_u32(len) == <<len[1], len[2]>>

(* ------------------------------ backend ------------------------------- *)
\* the order n of the P-256 group, big-endian
P256Order ==
    << 255, 255, 255, 255, 0, 0, 0, 0, 255, 255, 255, 255, 255, 255, 255, 255,
       188, 230, 250, 173, 167, 23, 158, 132, 243, 185, 202, 194, 252, 99, 37, 81 >>

\* big-endian a < b on buffers of the same length
BytesLess(a, b) ==
    \E i \in 1..Len(a) : a[i] < b[i] /\ \A j \in 1..(i - 1) : a[j] = b[j]

\* the backend's scalar validator: 0 < scalar < n
Hacl_P256_validate_private_key(scalar) ==
    /\ \E i \in 1..Len(scalar) : scalar[i] # 0
    /\ BytesLess(scalar, P256Order)

(* --------------------------- p256.rs: pure ---------------------------- *)
\* variant: the length test admits a 64-byte input
uncompressed_to_coordinates_OffByOne(point, ok, concat_point) ==
    IF Len(point) >= RawPointLen
    THEN [res |-> IF ok THEN Ok(concat_point) ELSE Err("InvalidInput"),
          calls |-> <<Ev("Hacl_P256_uncompressed_to_raw", <<point>>, ok)>>]
    ELSE [res |-> Err("NoCompressedPoint"), calls |-> <<>>]

uncompressed_to_coordinates(point, ok, concat_point) ==
    IF Len(point) >= UncompressedLen
    THEN [res |-> IF ok THEN Ok(concat_point) ELSE Err("InvalidInput"),
          calls |-> <<Ev("Hacl_P256_uncompressed_to_raw", <<point>>, ok)>>]
    ELSE [res |-> Err("NoCompressedPoint"), calls |-> <<>>]

compressed_to_coordinates(point, ok, concat_point) ==
    IF Len(point) >= CompressedLen
    THEN [res |-> IF ok THEN Ok(concat_point) ELSE Err("InvalidInput"),
          calls |-> <<Ev("Hacl_P256_compressed_to_raw", <<point>>, ok)>>]
    ELSE [res |-> Err("NoUnCompressedPoint"), calls |-> <<>>]

validate_point(point, ok) ==
    [res |-> IF ok THEN Ok(<<>>) ELSE Err("InvalidPoint"),
     calls |-> <<Ev("Hacl_P256_validate_public_key", <<point>>, ok)>>]

\* variant: the local all-zero test is missing
validate_scalar_NoZeroCheck(scalar) ==
    LET ok == Hacl_P256_validate_private_key(scalar)
    IN  [res |-> IF ok THEN Ok(<<>>) ELSE Err("InvalidScalar"),
         calls |-> << Ev("validate_scalar", <<scalar>>, ok),
                      Ev("Hacl_P256_validate_private_key", <<scalar>>, ok) >>]

validate_scalar(scalar) ==
    IF \A i \in 1..Len(scalar) : scalar[i] = 0
    THEN [res |-> Err("InvalidScalar"),
          calls |-> <<Ev("validate_scalar", <<scalar>>, FALSE)>>]
    ELSE LET ok == Hacl_P256_validate_private_key(scalar)
         IN  [res |-> IF ok THEN Ok(<<>>) ELSE Err("InvalidScalar"),
              calls |-> << Ev("validate_scalar", <<scalar>>, ok),
                           Ev("Hacl_P256_validate_private_key", <<scalar>>, ok) >>]

\* variant: the copy reads the head of the input, scalar[sk_len - 1 - i]
RECURSIVE slice_copy_FromHead(_, _, _, _)
slice_copy_FromHead(buf, scalar, i, sk_len) ==
    IF i >= sk_len
    THEN buf
    ELSE slice_copy_FromHead([buf EXCEPT ![ScalarLen - i] = scalar[sk_len - i]],
                             scalar, i + 1, sk_len)

\* variant: the copy fills the buffer from its head, private[sk_len - 1 - i]
RECURSIVE slice_copy_LeftAligned(_, _, _, _)
slice_copy_LeftAligned(buf, scalar, i, sk_len) ==
    IF i >= sk_len
    THEN buf
    ELSE slice_copy_LeftAligned([buf EXCEPT ![sk_len - i] = scalar[Len(scalar) - i]],
                                scalar, i + 1, sk_len)

\* for i in 0..sk_len { private[31 - i] = scalar[scalar.len() - 1 - i]; }
RECURSIVE slice_copy(_, _, _, _)
slice_copy(buf, scalar, i, sk_len) ==
    IF i >= sk_len
    THEN buf
    ELSE slice_copy([buf EXCEPT ![ScalarLen - i] = scalar[Len(scalar) - i]],
                    scalar, i + 1, sk_len)

validate_scalar_slice(scalar) ==
    IF Len(scalar) = 0
    THEN [res |-> Err("InvalidScalar"), private |-> <<>>,
          calls |-> <<Ev("validate_scalar_slice", <<scalar>>, FALSE)>>]
    ELSE LET sk_len == IF Len(scalar) >= ScalarLen THEN ScalarLen ELSE Len(scalar)
             buf == slice_copy(Fill(ScalarLen, 0), scalar, 0, sk_len)
             v == validate_scalar(buf)
         IN  [res |-> IF v.res.ok THEN Ok(buf) ELSE v.res,
              private |-> buf,
              calls |-> <<Ev("validate_scalar_slice", <<scalar>>, v.res.ok)>> \o v.calls]

\* variant: the scalar is validated before the responder is called
p256_ecdh_PreValidated(private_key, public_key, ok, shared) ==
    LET v == validate_scalar(private_key)
    IN  IF ~v.res.ok
        THEN [res |-> v.res, calls |-> v.calls]
        ELSE [res |-> IF ~ok THEN Err("InvalidInput") ELSE Ok(shared),
              calls |-> v.calls
                          \o <<Ev("Hacl_P256_dh_responder", <<public_key, private_key>>, ok)>>]

p256_ecdh(private_key, public_key, ok, shared) ==
    [res |-> IF ~ok THEN Err("InvalidInput") ELSE Ok(shared),
     calls |-> <<Ev("Hacl_P256_dh_responder", <<public_key, private_key>>, ok)>>]

\* variant: the initiator is called without validating the scalar
p256_secret_to_public_NoValidation(s, ok, out) ==
    [res |-> IF ok THEN Ok(out) ELSE Err("InvalidScalar"),
     calls |-> <<Ev("Hacl_P256_dh_initiator", <<s>>, ok)>>]

p256_secret_to_public(s, ok, out) ==
    LET v == validate_scalar(s)
    IN  IF ~v.res.ok
        THEN [res |-> v.res, calls |-> v.calls]
        ELSE [res |-> IF ok THEN Ok(out) ELSE Err("InvalidScalar"),
              calls |-> v.calls \o <<Ev("Hacl_P256_dh_initiator", <<s>>, ok)>>]

(* ------------------------ curve25519.rs: pure ------------------------- *)
curve25519_ecdh(private_key, public_key, ok, shared) ==
    [res |-> IF ~ok THEN Err("InvalidInput") ELSE Ok(shared),
     calls |-> <<Ev("Hacl_Curve25519_51_ecdh", <<private_key, public_key>>, ok)>>]

curve25519_secret_to_public(private_key, public) ==
    [res |-> Ok(public),
     calls |-> <<Ev("Hacl_Curve25519_51_secret_to_public", <<private_key>>, TRUE)>>]

\* mod vale (cfg(all(bmi2, adx, target_arch = "x86_64"))): private, no caller
vale_ecdh(private_key, public_key, ok, shared) ==
    [res |-> IF ~ok THEN Err("InvalidInput") ELSE Ok(shared),
     calls |-> <<Ev("Hacl_Curve25519_64_ecdh", <<private_key, public_key>>, ok)>>]

(* ------------------------------- inputs ------------------------------- *)
Zero32 == Fill(ScalarLen, 0)
One32 == [Zero32 EXCEPT ![ScalarLen] = 1]
OrderMinusOne == [P256Order EXCEPT ![ScalarLen] = P256Order[ScalarLen] - 1]
Scalars == {Zero32, One32, OrderMinusOne, P256Order, Fill(ScalarLen, 255), Ramp(ScalarLen)}

\* the last k bytes of s
LastBytes(s, k) == SubSeq(s, Len(s) - k + 1, Len(s))

ShortLens == {0, 1, 2, ScalarLen - 1}
ExcessBytes == {0, 1, 255}
Slices ==
    {LastBytes(s, k) : s \in Scalars, k \in ShortLens}
      \cup {Fill(e, b) \o s : e \in 0..MaxExcess, b \in ExcessBytes, s \in Scalars}

WireTags == {0, 2, 4}
WirePoints ==
    {[i \in 1..n |-> IF i = 1 THEN t ELSE i % 256] :
        n \in 0..(UncompressedLen + MaxWireExtra), t \in WireTags}

RawPoints == {Fill(RawPointLen, 0), Ramp(RawPointLen)}
X25519Bufs == {Fill(X25519Len, 0), Ramp(X25519Len), Fill(X25519Len, 255)}
OutFills == {0, 170}

MsgLens ==
    {<<l0, l1, l2, 0>> : l0 \in {0, 1, LimbMax}, l1 \in {0, LimbMax}, l2 \in 0..MaxMsgHiLimb}

SignFun ==
    [sign_sha256 |-> "Hacl_P256_ecdsa_sign_p256_sha2",
     sign_sha384 |-> "Hacl_P256_ecdsa_sign_p256_sha384",
     sign_sha512 |-> "Hacl_P256_ecdsa_sign_p256_sha512"]
SignOps == DOMAIN SignFun
SignerFns == {SignFun[n] : n \in SignOps}

(* ------------------------------ actions ------------------------------- *)
Init ==
    /\ pc = "idle"
    /\ op = "none"
    /\ args = <<>>
    /\ private = <<>>
    /\ calls = <<>>
    /\ result = Pending
    /\ accel \in BOOLEAN

\* a call that runs to completion in one step
Complete(name, a, r) ==
    /\ pc = "idle"
    /\ pc' = "done"
    /\ op' = name
    /\ args' = a
    /\ calls' = r.calls
    /\ result' = r.res
    /\ UNCHANGED accel

UncompressedToCoordinates ==
    \E point \in WirePoints, ok \in BOOLEAN, f \in OutFills :
        /\ Complete("uncompressed_to_coordinates", [point |-> point],
                    uncompressed_to_coordinates(point, ok, Fill(RawPointLen, f)))
        /\ private' = <<>>

CompressedToCoordinates ==
    \E point \in WirePoints, ok \in BOOLEAN, f \in OutFills :
        /\ Complete("compressed_to_coordinates", [point |-> point],
                    compressed_to_coordinates(point, ok, Fill(RawPointLen, f)))
        /\ private' = <<>>

ValidatePoint ==
    \E point \in RawPoints, ok \in BOOLEAN :
        /\ Complete("validate_point", [point |-> point], validate_point(point, ok))
        /\ private' = <<>>

ValidateScalar ==
    \E scalar \in Scalars :
        /\ Complete("validate_scalar", [scalar |-> scalar], validate_scalar(scalar))
        /\ private' = <<>>

ValidateScalarSlice ==
    \E scalar \in Slices :
        LET r == validate_scalar_slice(scalar)
        IN  /\ Complete("validate_scalar_slice", [scalar |-> scalar], r)
            /\ private' = r.private

P256Ecdh ==
    \E private_key \in Scalars, public_key \in RawPoints, ok \in BOOLEAN, f \in OutFills :
        /\ Complete("p256::ecdh", [private_key |-> private_key, public_key |-> public_key],
                    p256_ecdh(private_key, public_key, ok, Fill(RawPointLen, f)))
        /\ private' = <<>>

P256SecretToPublic ==
    \E s \in Scalars, ok \in BOOLEAN, f \in OutFills :
        /\ Complete("p256::secret_to_public", [s |-> s],
                    p256_secret_to_public(s, ok, Fill(RawPointLen, f)))
        /\ private' = <<>>

Curve25519Ecdh ==
    \E private_key \in X25519Bufs, public_key \in X25519Bufs, ok \in BOOLEAN, f \in OutFills :
        /\ Complete("curve25519::ecdh", [private_key |-> private_key, public_key |-> public_key],
                    curve25519_ecdh(private_key, public_key, ok, Fill(X25519Len, f)))
        /\ private' = <<>>

Curve25519SecretToPublic ==
    \E private_key \in X25519Bufs, f \in OutFills :
        /\ Complete("curve25519::secret_to_public", [private_key |-> private_key],
                    curve25519_secret_to_public(private_key, Fill(X25519Len, f)))
        /\ private' = <<>>

\* ecdsa::impl_sign, entry: the caller supplies msg (its length), sk, nonce
SignCall ==
    \E name \in SignOps, msg_len \in MsgLens, sk \in Scalars, nonce \in Scalars :
        /\ pc = "idle"
        /\ pc' = "validate_nonce"
        /\ op' = name
        /\ args' = [msg_len |-> msg_len, sk |-> sk, nonce |-> nonce]
        /\ private' = <<>>
        /\ calls' = <<>>
        /\ result' = Pending
        /\ UNCHANGED accel

\* variant: the result of validate_scalar(&nonce) is dropped
SignValidateNonce_IgnoreError ==
    /\ pc = "validate_nonce"
    /\ calls' = calls \o validate_scalar(args.nonce).calls
    /\ pc' = "validate_sk"
    /\ UNCHANGED <<op, args, private, result, accel>>

\* validate_scalar(&nonce)?;
SignValidateNonce ==
    /\ pc = "validate_nonce"
    /\ LET v == validate_scalar(args.nonce)
       IN  /\ calls' = calls \o v.calls
           /\ IF v.res.ok
              THEN pc' = "validate_sk" /\ result' = result
              ELSE pc' = "done" /\ result' = v.res
    /\ UNCHANGED <<op, args, private, accel>>

\* variant: the error of validate_scalar_slice(sk) is dropped
SignValidateSk_IgnoreError ==
    /\ pc = "validate_sk"
    /\ LET v == validate_scalar_slice(args.sk)
       IN  calls' = calls \o v.calls /\ private' = v.private
    /\ pc' = "invoke"
    /\ UNCHANGED <<op, args, result, accel>>

\* let private = validate_scalar_slice(sk)?;
SignValidateSk ==
    /\ pc = "validate_sk"
    /\ LET v == validate_scalar_slice(args.sk)
       IN  /\ calls' = calls \o v.calls
           /\ IF v.res.ok
              THEN pc' = "invoke" /\ result' = result /\ private' = v.res.val
              ELSE pc' = "done" /\ result' = v.res /\ private' = private
    /\ UNCHANGED <<op, args, accel>>

\* let success = $fun(signature, msg.len() as u32, msg, private, nonce); ...
SignInvoke ==
    /\ pc = "invoke"
    /\ \E success \in BOOLEAN, f \in OutFills :
          /\ calls' = Append(calls, Ev(SignFun[op],
                                       <<as_u32(args.msg_len), private, args.nonce>>,
                                       success))
          /\ result' = IF ~success THEN Err("SigningFailed") ELSE Ok(Fill(SignatureLen, f))
    /\ pc' = "done"
    /\ UNCHANGED <<op, args, private, accel>>

Next ==
    \/ UncompressedToCoordinates
    \/ CompressedToCoordinates
    \/ ValidatePoint
    \/ ValidateScalar
    \/ ValidateScalarSlice
    \/ P256Ecdh
    \/ P256SecretToPublic
    \/ Curve25519Ecdh
    \/ Curve25519SecretToPublic
    \/ SignCall
    \/ SignValidateNonce
    \/ SignValidateSk
    \/ SignInvoke

Spec == Init /\ [][Next]_vars

(* ----------------------------- properties ---------------------------- *)
Done == pc = "done"
AllZero(b) == \A i \in 1..Len(b) : b[i] = 0
BackendFns ==
    SignerFns \cup
    {"Hacl_P256_uncompressed_to_raw", "Hacl_P256_compressed_to_raw",
     "Hacl_P256_validate_public_key", "Hacl_P256_validate_private_key",
     "Hacl_P256_dh_responder", "Hacl_P256_dh_initiator",
     "Hacl_Curve25519_51_ecdh", "Hacl_Curve25519_51_secret_to_public",
     "Hacl_Curve25519_64_ecdh"}
\* the positions in the call log of calls to the functions in fs
CallsTo(fs) == {k \in DOMAIN calls : calls[k].fn \in fs}

\* C1: in sign_sha256/384/512 the nonce is the first thing checked; if
\* validate_scalar rejects the nonce (the all-zero nonce in particular) then
\* validate_scalar_slice is never applied to sk, the backend signer is never
\* invoked, and the call returns InvalidScalar.
C1_NonceCheckedFirst ==
    op \in SignOps =>
        /\ calls # <<>> =>
              /\ calls[1].fn = "validate_scalar"
              /\ calls[1].args = <<args.nonce>>
        /\ (AllZero(args.nonce) \/ ~validate_scalar(args.nonce).res.ok) =>
              /\ CallsTo({"validate_scalar_slice"} \cup SignerFns) = {}
              /\ pc \in {"validate_nonce", "done"}
              /\ private = <<>>
              /\ Done => result = Err("InvalidScalar")

C1_Witness ==
    /\ op \in SignOps /\ Done
    /\ AllZero(args.nonce)
    /\ validate_scalar_slice(args.sk).res.ok
    /\ result = Err("InvalidScalar")
    /\ Len(calls) = 1

\* C2: in each sign entry point the backend signer is invoked at most once
\* and only after the nonce passed validate_scalar and sk passed
\* validate_scalar_slice; an invalid sk gives InvalidScalar with no signer
\* call; SigningFailed is returned exactly when both validations passed and
\* the backend reported failure; Ok(64 bytes) exactly when the backend
\* reported success; an error carries no signature bytes.
C2_SignerGuarded ==
    op \in SignOps =>
        LET sc == CallsTo(SignerFns)
            nonceValid == validate_scalar(args.nonce).res.ok
            skValid == validate_scalar_slice(args.sk).res.ok
        IN  /\ Cardinality(sc) <= 1
            /\ \A k \in sc :
                  /\ calls[k].fn = SignFun[op]
                  /\ \E i \in 1..(k - 1) :
                        calls[i] = Ev("validate_scalar", <<args.nonce>>, TRUE)
                  /\ \E j \in 2..(k - 1) :
                        calls[j] = Ev("validate_scalar_slice", <<args.sk>>, TRUE)
                  /\ nonceValid /\ skValid
            /\ (Done /\ nonceValid /\ ~skValid) =>
                  result = Err("InvalidScalar") /\ sc = {}
            /\ Done =>
                  /\ result.err = "SigningFailed"
                        <=> (nonceValid /\ skValid /\ \E k \in sc : ~calls[k].ok)
                  /\ result.ok <=> (\E k \in sc : calls[k].ok)
                  /\ result.ok => Len(result.val) = SignatureLen
                  /\ ~result.ok => result.val = <<>>
            /\ ~Done => result = Pending

C2_Witness ==
    /\ op \in SignOps /\ Done
    /\ result = Err("SigningFailed")
    /\ Cardinality(CallsTo(SignerFns)) = 1

C2_WitnessBadKey ==
    /\ op \in SignOps /\ Done
    /\ validate_scalar(args.nonce).res.ok
    /\ args.sk = P256Order
    /\ result = Err("InvalidScalar")

\* C3: for every input longer than 32 bytes validate_scalar_slice returns the
\* same result (same normalized buffer or same error) as on the last 32 bytes
\* of that input alone.
C3_TruncationEquivalence ==
    (op = "validate_scalar_slice" /\ Done /\ Len(args.scalar) > ScalarLen) =>
        LET t == validate_scalar_slice(LastBytes(args.scalar, ScalarLen))
        IN  /\ result = t.res
            /\ private = t.private

C3_Witness ==
    /\ op = "validate_scalar_slice" /\ Done
    /\ Len(args.scalar) = ScalarLen + MaxExcess
    /\ args.scalar[1] = 255
    /\ result = Ok(One32)

C3_WitnessZeroTail ==
    /\ op = "validate_scalar_slice" /\ Done
    /\ Len(args.scalar) > ScalarLen
    /\ args.scalar[1] = 255
    /\ result = Err("InvalidScalar")
    /\ private = Zero32

\* C4: validate_scalar_slice rejects the empty input at once; otherwise, with
\* k = min(L, 32), the validated buffer holds the last k input bytes in its
\* last k positions and zero in its first 32 - k positions, and the result is
\* Ok(buffer) exactly when validate_scalar accepts the buffer, else its error.
C4_RightAligned ==
    (op = "validate_scalar_slice" /\ Done) =>
        LET L == Len(args.scalar)
            k == IF L < ScalarLen THEN L ELSE ScalarLen
        IN  IF L = 0
            THEN /\ result = Err("InvalidScalar")
                 /\ CallsTo({"validate_scalar"} \cup BackendFns) = {}
            ELSE /\ Len(private) = ScalarLen
                 /\ \A j \in 1..k : private[ScalarLen - k + j] = args.scalar[L - k + j]
                 /\ \A j \in 1..(ScalarLen - k) : private[j] = 0
                 /\ Len(calls) >= 2
                 /\ calls[2].fn = "validate_scalar"
                 /\ calls[2].args = <<private>>
                 /\ result = IF calls[2].ok THEN Ok(private) ELSE Err("InvalidScalar")
                 /\ calls[2].ok <=> validate_scalar(private).res.ok

C4_Witness ==
    /\ op = "validate_scalar_slice" /\ Done
    /\ Len(args.scalar) = 2
    /\ args.scalar = <<37, 81>>
    /\ result.ok
    /\ private[ScalarLen - 1] = 37 /\ private[ScalarLen] = 81 /\ private[1] = 0

C4_WitnessEmpty ==
    /\ op = "validate_scalar_slice" /\ Done
    /\ args.scalar = <<>>
    /\ result = Err("InvalidScalar")

\* C5: validate_scalar returns InvalidScalar for the all-zero buffer without
\* calling the backend validator; otherwise it returns Ok exactly when the
\* backend validator accepts; InvalidScalar is its only error.
C5_ValidateScalar ==
    (op = "validate_scalar" /\ Done) =>
        LET bc == CallsTo({"Hacl_P256_validate_private_key"})
        IN  /\ CallsTo(BackendFns) = bc
            /\ AllZero(args.scalar) => (result = Err("InvalidScalar") /\ bc = {})
            /\ ~AllZero(args.scalar) =>
                  /\ Cardinality(bc) = 1
                  /\ \A k \in bc :
                        /\ calls[k].args = <<args.scalar>>
                        /\ result.ok <=> calls[k].ok
            /\ result.ok => result = Ok(<<>>)
            /\ ~result.ok => result = Err("InvalidScalar")

C5_Witness ==
    /\ op = "validate_scalar" /\ Done
    /\ args.scalar = Zero32
    /\ result = Err("InvalidScalar")
    /\ CallsTo(BackendFns) = {}

C5_WitnessOutOfRange ==
    /\ op = "validate_scalar" /\ Done
    /\ args.scalar = P256Order
    /\ result = Err("InvalidScalar")
    /\ CallsTo(BackendFns) # {}

\* C6: point decoding checks the length before parsing: a too-short input
\* gives NoCompressedPoint (uncompressed, < 65) or NoUnCompressedPoint
\* (compressed, < 33) with no backend call, so the parser never gets a buffer
\* shorter than it reads; otherwise the result is Ok(64 bytes) exactly when
\* the parser accepts, else InvalidInput.
Decoders ==
    [uncompressed_to_coordinates |->
        [width |-> UncompressedLen, short |-> "NoCompressedPoint",
         fn |-> "Hacl_P256_uncompressed_to_raw"],
     compressed_to_coordinates |->
        [width |-> CompressedLen, short |-> "NoUnCompressedPoint",
         fn |-> "Hacl_P256_compressed_to_raw"]]

C6_LengthBeforeParsing ==
    (op \in DOMAIN Decoders /\ Done) =>
        LET d == Decoders[op]
        IN  /\ \A k \in CallsTo({"Hacl_P256_uncompressed_to_raw"}) :
                  Len(calls[k].args[1]) >= UncompressedLen
            /\ \A k \in CallsTo({"Hacl_P256_compressed_to_raw"}) :
                  Len(calls[k].args[1]) >= CompressedLen
            /\ Len(args.point) < d.width =>
                  (result = Err(d.short) /\ calls = <<>>)
            /\ Len(args.point) >= d.width =>
                  /\ Len(calls) = 1
                  /\ calls[1].fn = d.fn
                  /\ calls[1].args = <<args.point>>
                  /\ result.ok <=> calls[1].ok
                  /\ result.ok => Len(result.val) = RawPointLen
                  /\ ~result.ok => result = Err("InvalidInput")

C6_Witness ==
    /\ op = "uncompressed_to_coordinates" /\ Done
    /\ Len(args.point) = UncompressedLen - 1
    /\ result = Err("NoCompressedPoint")

C6_WitnessCompressed ==
    /\ op = "compressed_to_coordinates" /\ Done
    /\ Len(args.point) = CompressedLen
    /\ result.ok

\* C7: P-256 secret_to_public calls the backend's dh_initiator only after
\* validate_scalar(s) succeeded; a rejected scalar gives InvalidScalar with no
\* initiator call; a backend failure after validation is InvalidScalar, not
\* InvalidInput; Ok(64 bytes) exactly when validation and the backend succeed.
C7_SecretToPublic ==
    (op = "p256::secret_to_public" /\ Done) =>
        LET ic == CallsTo({"Hacl_P256_dh_initiator"})
            valid == validate_scalar(args.s).res.ok
        IN  /\ calls # <<>>
            /\ calls[1] = Ev("validate_scalar", <<args.s>>, valid)
            /\ \A k \in ic : valid /\ k > 1 /\ calls[k].args = <<args.s>>
            /\ ~valid => (result = Err("InvalidScalar") /\ ic = {})
            /\ valid => Cardinality(ic) = 1
            /\ result.ok <=> (valid /\ \E k \in ic : calls[k].ok)
            /\ result.ok => Len(result.val) = RawPointLen
            /\ ~result.ok => result = Err("InvalidScalar")

C7_Witness ==
    /\ op = "p256::secret_to_public" /\ Done
    /\ validate_scalar(args.s).res.ok
    /\ \E k \in CallsTo({"Hacl_P256_dh_initiator"}) : ~calls[k].ok
    /\ result = Err("InvalidScalar")

C7_WitnessRejected ==
    /\ op = "p256::secret_to_public" /\ Done
    /\ args.s = Zero32
    /\ result = Err("InvalidScalar")

\* C8: X25519 ecdh and P-256 ecdh do no pre-validation: for every input the
\* backend is invoked exactly once (and nothing else is), the result is
\* Ok(shared) exactly when the backend reports success and InvalidInput
\* otherwise; InvalidScalar and InvalidPoint are never returned.
EcdhFn ==
    [p256_ecdh |-> "Hacl_P256_dh_responder", curve25519_ecdh |-> "Hacl_Curve25519_51_ecdh"]

C8_EcdhNoPreValidation ==
    (op \in {"p256::ecdh", "curve25519::ecdh"} /\ Done) =>
        /\ Len(calls) = 1
        /\ calls[1].fn =
              IF op = "p256::ecdh" THEN EcdhFn.p256_ecdh ELSE EcdhFn.curve25519_ecdh
        /\ calls[1].args =
              IF op = "p256::ecdh"
              THEN <<args.public_key, args.private_key>>
              ELSE <<args.private_key, args.public_key>>
        /\ result.ok <=> calls[1].ok
        /\ result.ok =>
              Len(result.val) = IF op = "p256::ecdh" THEN RawPointLen ELSE X25519Len
        /\ ~result.ok => result = Err("InvalidInput")

C8_Witness ==
    /\ op = "p256::ecdh" /\ Done
    /\ args.private_key = Zero32
    /\ AllZero(args.public_key)
    /\ Len(calls) = 1
    /\ result.ok

C8_WitnessX25519 ==
    /\ op = "curve25519::ecdh" /\ Done
    /\ AllZero(args.private_key)
    /\ Len(calls) = 1
    /\ result = Err("InvalidInput")

\* C9: on a platform with bmi2 and adx (x86_64) a call to the X25519 ecdh is
\* served by the accelerated backend, with the outcome of the call.
C9_AcceleratedSelected ==
    (accel /\ op = "curve25519::ecdh" /\ Done) =>
        /\ calls = vale_ecdh(args.private_key, args.public_key, result.ok, result.val).calls
        /\ result = vale_ecdh(args.private_key, args.public_key, result.ok, result.val).res

\* C10: when both validations pass, the backend signer is handed the whole
\* message (the length it gets equals msg.len()), the normalized private key
\* and the caller's nonce.
C10_WholeMessage ==
    op \in SignOps =>
        \A k \in CallsTo(SignerFns) :
            /\ calls[k].args[1] \o <<0, 0>> = args.msg_len
            /\ calls[k].args[2] = validate_scalar_slice(args.sk).private
            /\ calls[k].args[3] = args.nonce

====
